---- MODULE Spec2Model ----
(***************************************************************************)
(* Verification model of the RBM variational engine (cecri/yannq):         *)
(*   Machines/RBM.hpp        the RBM ansatz and its flat parameter layout   *)
(*   States/RBMState.hpp     the incrementally updated (sigma, theta) state *)
(*   Samplers/Sampler.hpp    the Markov-chain sampler                       *)
(*   Runners/RunRBMExact.hpp the exact stochastic-reconfiguration loop      *)
(*                                                                         *)
(* Scalars are modelled in exact arithmetic over the integers.  Values of  *)
(* the transcendental functions logCosh, cosh and tanh are kept as formal  *)
(* terms (normalised by logCosh(-x) = logCosh(x), logCosh(0) = 0,          *)
(* tanh(-x) = -tanh(x), tanh(0) = 0), so that two results are equal in the *)
(* model exactly when they are equal as real numbers.  assert() is         *)
(* modelled as enabled: a failed assertion aborts the process.             *)
(***************************************************************************)
EXTENDS Integers, Sequences, FiniteSets, TLC

\* ------------------------------------------------------------------ bounds
MaxN == 2          \* visible units n range over 1..MaxN
MaxM == 2          \* hidden units m range over 1..MaxM
MaxSeed == 3       \* seeds of the random engine range over 0..MaxSeed
RandRange == 2     \* a random variate is quantised to -RandRange..RandRange
MaxCalls == 1      \* mutating calls made on one object in one behaviour
MaxTuple == 2      \* flip(tuple)/logRatio(tuple) take tuples of 1..MaxTuple sites
MaxSweeps == 2     \* sampling(n_sweeps, n_therm) is called with n_sweeps in 0..MaxSweeps
MaxTherm == 1      \* and n_therm in 0..MaxTherm
MaxIter == 1       \* the runner's maxIter ranges over 0..MaxIter
MaxSavePer == 2    \* and its saveWfPer over 0..MaxSavePer

VARIABLES
    qs,        \* the Machine: [n, m, useBias, W, a, b]           (RBM.hpp:40-47)
    sv,        \* the StateValue [sigma, theta], or Null          (RBMState.hpp:125-126, Sampler.hpp:16)
    call,      \* the last public call made: [op, args, pre, ret]; args, pre and ret
               \* are kept for the calls whose contract speaks of them
    nCalls,    \* number of mutating calls made so far
    aborted,   \* TRUE once an assertion has terminated the process
    ub,        \* TRUE once undefined behaviour has been executed (a null StateValue
               \* handed to the sweeper or read): what follows is unconstrained, and
               \* the model stops there
    smp,       \* the frame of Sampler::sampling: its position, arguments and locals
    done,      \* TRUE when a sampling() call has returned on the chain since the chain
               \* was last randomized
    rn,        \* the frame of RunRBMExact::run: its position and locals
    cb         \* the callback invocations made so far, in order

vars == <<qs, sv, call, nCalls, aborted, ub, smp, done, rn, cb>>

Null == "null"
\* the empty unique_ptr<StateValue> (Sampler.hpp:16), no StateValue constructed yet
NullSV == [sigma |-> <<>>, theta |-> <<>>]
NoCall == [op |-> "none", args |-> <<>>, pre |-> Null, ret |-> Null]
\* no sampling() call has been made
IdleFrame ==
    [pc |-> "idle", n_sweeps |-> 0, n_therm |-> 0, n |-> 0, ll |-> 0, sweeps |-> 0,
     restart |-> FALSE, res |-> <<>>]
\* run() has not been called
NoRun == [pc |-> "none"]
SamplerUnused == UNCHANGED <<ub, smp, done>>
RunnerUnused == UNCHANGED <<rn, cb>>

\* ----------------------------------------------------------------- vectors
\* A vector of length d is a function on 0..d-1 (Eigen's zero-based index).
Idx(d) == 0 .. (d - 1)
VLen(v) == Cardinality(DOMAIN v)
ZeroVec(d) == [p \in Idx(d) |-> 0]
VecAdd(u, v) == [p \in DOMAIN u |-> u[p] + v[p]]
Abs(x) == IF x < 0 THEN -x ELSE x

RECURSIVE SumUpTo(_, _)
\* f[0] + ... + f[k-1]
SumUpTo(f, k) == IF k = 0 THEN 0 ELSE SumUpTo(f, k - 1) + f[k - 1]

Dot(u, v) == SumUpTo([p \in DOMAIN u |-> u[p] * v[p]], VLen(u))

Configs(n) == [Idx(n) -> {-1, 1}]


\* ------------------------------------------- formal transcendental values
\* lin + SUM lc[key] * logCosh(key): lc is a function on the keys (> 0) whose
\* coefficient is not 0
NoTerms == [k \in {} |-> 0]
Lin(c) == [lin |-> c, lc |-> NoTerms]
Coef(F, k) == IF k \in DOMAIN F.lc THEN F.lc[k] ELSE 0
FAdd(F, G) ==
    [lin |-> F.lin + G.lin,
     lc  |-> [k \in {x \in DOMAIN F.lc \cup DOMAIN G.lc : Coef(F, x) + Coef(G, x) # 0}
                |-> Coef(F, k) + Coef(G, k)]]
FNeg(F) == [lin |-> -F.lin, lc |-> [k \in DOMAIN F.lc |-> -F.lc[k]]]
FSub(F, G) == FAdd(F, FNeg(G))

RECURSIVE FSum(_, _)
\* f[0] + ... + f[k-1] of formal values
FSum(f, k) == IF k = 0 THEN Lin(0) ELSE FAdd(FSum(f, k - 1), f[k - 1])

\* logCosh(x) = log(cosh(x)): even, and 0 at 0
logCosh(x) == [lin |-> 0, lc |-> IF x = 0 THEN NoTerms ELSE [k \in {Abs(x)} |-> 1]]

\* c0 + t * tanh(x), x >= 0; tanh is odd and 0 at 0
Const(c) == [c |-> c, t |-> 0, x |-> 0]
TimesTanh(c, x) ==
    IF c = 0 \/ x = 0 THEN Const(0)
    ELSE [c |-> 0, t |-> IF x < 0 THEN -c ELSE c, x |-> Abs(x)]

\* std::exp of a formal value: exp(lin) * PROD cosh(key)^coef
Exp(F) == [expo |-> F.lin, coshs |-> F.lc]

\* the quotient c1/c2 of two values exp(expo) * PROD cosh(key)^coef
CoeffDiv(c1, c2) ==
    Exp(FSub([lin |-> c1.expo, lc |-> c1.coshs], [lin |-> c2.expo, lc |-> c2.coshs]))

\* ------------------------------------------------------- Machine (RBM.hpp)
\* RBM(n, m, useBias): W, a and b are set to zero
RBM(n, m, useBias) ==
    [n |-> n, m |-> m, useBias |-> useBias,
     W |-> [j \in Idx(m) |-> [i \in Idx(n) |-> 0]],
     a |-> ZeroVec(n), b |-> ZeroVec(m)]

getDim(q) == IF q.useBias THEN q.n * q.m + q.n + q.m ELSE q.n * q.m

\* W_.data(): Eigen keeps the m-by-n matrix column-major, W(j,i) at i*m + j
WData(q) == [p \in Idx(q.n * q.m) |-> q.W[p % q.m][p \div q.m]]

\* Eigen::Map<const Matrix>(data + off, m, n): element (j,i) is data[off + i*m + j]
MapMatrix(data, off, m, n) ==
    [j \in Idx(m) |-> [i \in Idx(n) |-> data[off + i * m + j]]]

\* Eigen::Map<const Vector>(data + off, len), r.segment(off, len)
MapVector(data, off, len) == [p \in Idx(len) |-> data[off + p]]

MatAdd(A, B) == [j \in DOMAIN A |-> [i \in DOMAIN A[j] |-> A[j][i] + B[j][i]]]

\* theta = W*sigma + b
calcTheta(q, sigma) == [j \in Idx(q.m) |-> Dot(q.W[j], sigma) + q.b[j]]

\* getParams reporting the weight block row-major: W(j,i) at j*n + i
getParamsRowMajor(q) ==
    LET nm == q.n * q.m IN
    [p \in Idx(getDim(q)) |->
        IF p < nm THEN q.W[p \div q.n][p % q.n]
        ELSE IF p < nm + q.n THEN q.a[p - nm]
        ELSE q.b[p - nm - q.n]]

getParams(q) ==
    LET nm == q.n * q.m IN
    [p \in Idx(getDim(q)) |->
        IF p < nm THEN WData(q)[p]
        ELSE IF p < nm + q.n THEN q.a[p - nm]
        ELSE q.b[p - nm - q.n]]

\* setParams reading r as a row-major matrix: W(j,i) from r[j*n + i]
setParamsRowMajor(q, r) ==
    LET nm  == q.n * q.m
        qW  == [q EXCEPT !.W = [j \in Idx(q.m) |-> [i \in Idx(q.n) |-> r[j * q.n + i]]]]
    IN  IF ~q.useBias THEN qW
        ELSE [qW EXCEPT !.a = MapVector(r, nm, q.n),
                        !.b = MapVector(r, nm + q.n, q.m)]

\* the body of setParams after its assertion
setParams(q, r) ==
    LET nm  == q.n * q.m
        qW  == [q EXCEPT !.W = MapMatrix(r, 0, q.m, q.n)]
    IN  IF ~q.useBias THEN qW
        ELSE [qW EXCEPT !.a = MapVector(r, nm, q.n),
                        !.b = MapVector(r, nm + q.n, q.m)]

\* updateParams taking the b segment at offset m*n instead of m*n + n
updateParamsBiasOffset(q, d) ==
    LET nm  == q.n * q.m
        qW  == [q EXCEPT !.W = MatAdd(q.W, MapMatrix(d, 0, q.m, q.n))]
    IN  IF ~q.useBias THEN qW
        ELSE [qW EXCEPT !.a = VecAdd(q.a, MapVector(d, nm, q.n)),
                        !.b = VecAdd(q.b, MapVector(d, nm, q.m))]

\* the body of updateParams after its assertion
updateParams(q, d) ==
    LET nm  == q.n * q.m
        qW  == [q EXCEPT !.W = MatAdd(q.W, MapMatrix(d, 0, q.m, q.n))]
    IN  IF ~q.useBias THEN qW
        ELSE [qW EXCEPT !.a = VecAdd(q.a, MapVector(d, nm, q.n)),
                        !.b = VecAdd(q.b, MapVector(d, nm + q.n, q.m))]

RECURSIVE EngineState(_, _)
\* the random engine's state after k draws from the seed
EngineState(seed, k) ==
    IF k = 0 THEN seed % 16 ELSE (5 * EngineState(seed, k - 1) + 3) % 16

\* nd(re): the k-th variate drawn, quantised to -RandRange..RandRange
Draw(seed, k) == (EngineState(seed, k + 1) % (2 * RandRange + 1)) - RandRange

\* initializeRandom(re, sigma), real scalar: a, then b, then W column by column
initializeRandom(q, seed) ==
    LET off == IF q.useBias THEN q.n + q.m ELSE 0
        qW  == [q EXCEPT !.W = [j \in Idx(q.m) |-> [i \in Idx(q.n) |->
                                   Draw(seed, off + i * q.m + j)]]]
    IN  IF ~q.useBias THEN qW
        ELSE [qW EXCEPT !.a = [i \in Idx(q.n) |-> Draw(seed, i)],
                        !.b = [j \in Idx(q.m) |-> Draw(seed, q.n + j)]]

\* logCoeff(t) = a.sigma + SUM_j logCosh(theta_j)
logCoeff(q, t) ==
    FAdd(Lin(Dot(q.a, t.sigma)),
         FSum([j \in Idx(q.m) |-> logCosh(t.theta[j])], q.m))

\* coeff(t) = exp(a.sigma) * PROD_j cosh(theta_j), kept as the exponent and the
\* multiset of the factors cosh(|theta_j|) (cosh is even, cosh(0) = 1)
coeff(q, t) ==
    [expo  |-> Dot(q.a, t.sigma),
     coshs |-> FSum([j \in Idx(q.m) |-> logCosh(t.theta[j])], q.m).lc]

\* logDeriv writing the weight block row-major: entry (j,i) at j*n + i
logDerivRowMajor(q, t) ==
    LET nm == q.n * q.m IN
    [p \in Idx(getDim(q)) |->
        IF p < nm THEN TimesTanh(t.sigma[p % q.n], t.theta[p \div q.n])
        ELSE IF p < nm + q.n THEN Const(t.sigma[p - nm])
        ELSE TimesTanh(1, t.theta[p - nm - q.n])]

\* logDeriv(t): sigma(i)*tanhs in segment i*m .. i*m + m - 1, then sigma, then tanhs
logDeriv(q, t) ==
    LET nm == q.n * q.m IN
    [p \in Idx(getDim(q)) |->
        IF p < nm THEN TimesTanh(t.sigma[p \div q.m], t.theta[p % q.m])
        ELSE IF p < nm + q.n THEN Const(t.sigma[p - nm])
        ELSE TimesTanh(1, t.theta[p - nm - q.n])]

\* ------------------------------------------ StateValue (RBMState.hpp)
\* RBMStateValue(qs, sigma): theta_ = qs.calcTheta(sigma_)
StateValue(q, sigma) == [sigma |-> sigma, theta |-> calcTheta(q, sigma)]

\* data(): a copy of (sigma_, theta_)
data(s) == [sigma |-> s.sigma, theta |-> s.theta]

\* logRatio(int k) shifting theta by +2*sigma_k*W(j,k)
logRatioPlusShift(q, s, k) ==
    FAdd(Lin(-2 * q.a[k] * s.sigma[k]),
         FSum([j \in Idx(q.m) |->
                 FSub(logCosh(s.theta[j] + 2 * s.sigma[k] * q.W[j][k]),
                      logCosh(s.theta[j]))], q.m))

\* logRatio(int k)
logRatio(q, s, k) ==
    FAdd(Lin(-2 * q.a[k] * s.sigma[k]),
         FSum([j \in Idx(q.m) |->
                 FSub(logCosh(s.theta[j] - 2 * s.sigma[k] * q.W[j][k]),
                      logCosh(s.theta[j]))], q.m))

\* logRatio(int k, int l)
logRatio2(q, s, k, l) ==
    FAdd(Lin(-2 * q.a[k] * s.sigma[k] - 2 * q.a[l] * s.sigma[l]),
         FSum([j \in Idx(q.m) |->
                 FSub(logCosh(s.theta[j] - 2 * s.sigma[k] * q.W[j][k]
                                         - 2 * s.sigma[l] * q.W[j][l]),
                      logCosh(s.theta[j]))], q.m))

RECURSIVE SeqSum(_)
SeqSum(xs) == IF xs = <<>> THEN 0 ELSE xs[1] + SeqSum(Tail(xs))

\* logRatio(const std::array<int, N>& v)
logRatioN(q, s, v) ==
    FAdd(Lin(-SeqSum([e \in DOMAIN v |-> 2 * q.a[v[e]] * s.sigma[v[e]]])),
         FSum([j \in Idx(q.m) |->
                 FSub(logCosh(s.theta[j]
                        - SeqSum([e \in DOMAIN v |-> 2 * s.sigma[v[e]] * q.W[j][v[e]]])),
                      logCosh(s.theta[j]))], q.m))

\* flip(int k)
flip(q, s, k) ==
    [sigma |-> [s.sigma EXCEPT ![k] = -s.sigma[k]],
     theta |-> [j \in DOMAIN s.theta |-> s.theta[j] - 2 * s.sigma[k] * q.W[j][k]]]

\* flip(int k, int l): theta from the old sigma, then sigma_(k) *= -1; sigma_(l) *= -1
flip2(q, s, k, l) ==
    LET s1 == [s.sigma EXCEPT ![k] = -s.sigma[k]] IN
    [sigma |-> [s1 EXCEPT ![l] = -s1[l]],
     theta |-> [j \in DOMAIN s.theta |->
                  s.theta[j] + (-2 * s.sigma[k] * q.W[j][k] - 2 * s.sigma[l] * q.W[j][l])]]

RECURSIVE NegateAll(_, _)
\* for(int elt: v) sigma_(elt) *= -1;
NegateAll(sigma, v) ==
    IF v = <<>> THEN sigma
    ELSE NegateAll([sigma EXCEPT ![v[1]] = -sigma[v[1]]], Tail(v))

\* flip(const std::array<int, N>& v): every theta update reads the old sigma
flipN(q, s, v) ==
    [sigma |-> NegateAll(s.sigma, v),
     theta |-> [j \in DOMAIN s.theta |->
                  s.theta[j] - SeqSum([e \in DOMAIN v |-> 2 * s.sigma[v[e]] * q.W[j][v[e]]])]]


\* ------------------------------------------------------------- call records
Called(op, args, pre, ret) == [op |-> op, args |-> args, pre |-> pre, ret |-> ret]

\* The const queries.  A query changes neither the Machine nor the StateValue, so
\* the calls that can follow it are those that can follow the state it was made
\* on: nothing further is explored from the state that holds a query's result.
QueryOps == {"logRatio", "logRatio2", "logRatioN", "logDeriv", "getParams"}
Ready == ~aborted /\ ~ub /\ call.op \notin QueryOps

Sites == Idx(qs.n)
\* the index tuples (std::array<int, N>) handed to flip and logRatio
Tuples == UNION {[1 .. len -> Sites] : len \in 1 .. MaxTuple}

\* ---------------------------------------- operations on Machine and StateValue
\* RBM(n, m, useBias): the Machine right after construction
Constructed ==
    /\ \E n \in 1 .. MaxN, m \in 1 .. MaxM, useBias \in BOOLEAN : qs = RBM(n, m, useBias)
    /\ sv = NullSV
    /\ call = NoCall
    /\ nCalls = 0
    /\ aborted = FALSE
    /\ ub = FALSE /\ smp = IdleFrame /\ done = FALSE
    /\ rn = NoRun /\ cb = <<>>

\* qs.initializeRandom(re): before any StateValue refers to the Machine
InitializeRandom(seed) ==
    /\ Ready /\ sv = NullSV /\ call.op = "none"
    /\ qs' = initializeRandom(qs, seed)
    /\ call' = Called("initializeRandom", <<seed>>, qs, Null)
    /\ UNCHANGED <<sv, nCalls, aborted>>
    /\ SamplerUnused /\ RunnerUnused

\* StateValue sv(qs, sigma)
NewStateValue(sigma) ==
    /\ Ready /\ sv = NullSV
    /\ sv' = StateValue(qs, sigma)
    /\ call' = Called("StateValue", <<>>, Null, Null)
    /\ UNCHANGED <<qs, nCalls, aborted>>
    /\ SamplerUnused /\ RunnerUnused

Flip(k) ==
    /\ Ready /\ sv # NullSV /\ nCalls < MaxCalls
    /\ sv' = flip(qs, sv, k)
    /\ call' = Called("flip", <<>>, Null, Null)
    /\ nCalls' = nCalls + 1
    /\ UNCHANGED <<qs, aborted>>
    /\ SamplerUnused /\ RunnerUnused

Flip2(k, l) ==
    /\ Ready /\ sv # NullSV /\ nCalls < MaxCalls
    /\ sv' = flip2(qs, sv, k, l)
    /\ call' = Called("flip2", <<>>, Null, Null)
    /\ nCalls' = nCalls + 1
    /\ UNCHANGED <<qs, aborted>>
    /\ SamplerUnused /\ RunnerUnused

FlipN(v) ==
    /\ Ready /\ sv # NullSV /\ nCalls < MaxCalls
    /\ sv' = flipN(qs, sv, v)
    /\ call' = Called("flipN", <<>>, Null, Null)
    /\ nCalls' = nCalls + 1
    /\ UNCHANGED <<qs, aborted>>
    /\ SamplerUnused /\ RunnerUnused

LogRatio(k) ==
    /\ Ready /\ sv # NullSV
    /\ call' = Called("logRatio", <<k>>, Null, logRatio(qs, sv, k))
    /\ UNCHANGED <<qs, sv, nCalls, aborted>>
    /\ SamplerUnused /\ RunnerUnused

LogRatio2(k, l) ==
    /\ Ready /\ sv # NullSV
    /\ call' = Called("logRatio2", <<k, l>>, Null, logRatio2(qs, sv, k, l))
    /\ UNCHANGED <<qs, sv, nCalls, aborted>>
    /\ SamplerUnused /\ RunnerUnused

LogRatioN(v) ==
    /\ Ready /\ sv # NullSV
    /\ call' = Called("logRatioN", v, Null, logRatioN(qs, sv, v))
    /\ UNCHANGED <<qs, sv, nCalls, aborted>>
    /\ SamplerUnused /\ RunnerUnused

\* qs.logDeriv(sv.data())
LogDeriv ==
    /\ Ready /\ sv # NullSV
    /\ call' = Called("logDeriv", <<>>, Null, logDeriv(qs, data(sv)))
    /\ UNCHANGED <<qs, sv, nCalls, aborted>>
    /\ SamplerUnused /\ RunnerUnused

\* site indices outside [0, n)
OutOfRange == {-1, qs.n}
\* index tuples whose last element is out of range, after sites in range
BadTuples ==
    {Append(v, k) : v \in UNION {[1 .. len -> Sites] : len \in 0 .. MaxTuple - 1},
                    k \in OutOfRange}

\* An expression reading sigma_(k) and qs_.W(j,k) or qs_.A(k) with k out of range.
\* sigma_(k) is Eigen's checked operator(), whose assertion aborts; W(j,k) and A(k)
\* are the unchecked coeff(), which reads outside the buffer.  The order of the
\* two operands is not specified: either the assertion fires first, or the
\* out-of-bounds read is made first, which is undefined behaviour.
OutOfRangeAccess ==
    \/ aborted' = TRUE /\ UNCHANGED ub
    \/ ub' = TRUE /\ UNCHANGED aborted

\* flip(int k) with k out of range: the first statement of the loop fails
FlipOutOfRange(k) ==
    /\ Ready /\ sv # NullSV /\ nCalls < MaxCalls
    /\ OutOfRangeAccess
    /\ call' = Called("flipOutOfRange", <<>>, sv, Null)
    /\ nCalls' = nCalls + 1
    /\ UNCHANGED <<qs, sv, smp, done>>
    /\ RunnerUnused

\* flip(int k, int l) with k or l out of range
Flip2OutOfRange(k, l) ==
    /\ Ready /\ sv # NullSV /\ nCalls < MaxCalls
    /\ OutOfRangeAccess
    /\ call' = Called("flipOutOfRange", <<>>, sv, Null)
    /\ nCalls' = nCalls + 1
    /\ UNCHANGED <<qs, sv, smp, done>>
    /\ RunnerUnused

\* flip(const std::array<int, N>& v) with an element out of range: the theta loop
\* has already run for the elements before the first one out of range
FlipNOutOfRange(v) ==
    /\ Ready /\ sv # NullSV /\ nCalls < MaxCalls
    /\ OutOfRangeAccess
    /\ LET bad == CHOOSE e \in DOMAIN v :
                     v[e] \notin Sites /\ \A f \in 1 .. e - 1 : v[f] \in Sites
       IN  sv' = [sv EXCEPT !.theta = flipN(qs, sv, SubSeq(v, 1, bad - 1)).theta]
    /\ call' = Called("flipOutOfRange", <<>>, sv, Null)
    /\ nCalls' = nCalls + 1
    /\ UNCHANGED <<qs, smp, done>>
    /\ RunnerUnused

\* logRatio(int k) with k out of range: it starts with qs_.A(k)*sigmaAt(k), as
\* logRatio(k,l) and logRatio(array) do for each of their indices
LogRatioOutOfRange(k) ==
    /\ Ready /\ sv # NullSV
    /\ OutOfRangeAccess
    /\ call' = Called("logRatioOutOfRange", <<>>, sv, Null)
    /\ UNCHANGED <<qs, sv, nCalls, smp, done>>
    /\ RunnerUnused

NextState ==
    \/ \E seed \in 0 .. MaxSeed : InitializeRandom(seed)
    \/ \E sigma \in Configs(qs.n) : NewStateValue(sigma)
    \/ \E k \in Sites : Flip(k)
    \/ \E k \in Sites, l \in Sites : Flip2(k, l)
    \/ \E v \in Tuples : FlipN(v)
    \/ \E k \in Sites : LogRatio(k)
    \/ \E k \in Sites, l \in Sites : LogRatio2(k, l)
    \/ \E v \in Tuples : LogRatioN(v)
    \/ LogDeriv
    \/ \E k \in OutOfRange : FlipOutOfRange(k)
    \/ \E k \in Sites \cup OutOfRange, l \in OutOfRange : Flip2OutOfRange(k, l)
    \/ \E v \in BadTuples : FlipNOutOfRange(v)
    \/ \E k \in OutOfRange : LogRatioOutOfRange(k)

\* a Machine, one StateValue on it, and any calls of its flips and queries
SpecState == Constructed /\ [][NextState]_vars

\* ------------------------------------------------ parameter operations
\* the flat vectors handed to setParams and updateParams: the unit vectors and a
\* ramp of the right length, the Machine's own parameters, and ramps that are one
\* entry too short and one too long
Ramp(d) == [p \in Idx(d) |-> p + 1]
ParamInputs ==
    LET d == getDim(qs) IN
    {[p \in Idx(d) |-> IF p = u THEN 1 ELSE 0] : u \in Idx(d)}
        \cup {Ramp(d), Ramp(d - 1), Ramp(d + 1), getParams(qs)}

\* qs.setParams(r): assert(r.size() == getDim()), then the body
SetParams(r) ==
    /\ Ready /\ sv = NullSV /\ nCalls < MaxCalls
    /\ call' = Called("setParams", r, qs, Null)
    /\ nCalls' = nCalls + 1
    /\ IF VLen(r) = getDim(qs)
         THEN qs' = setParams(qs, r) /\ UNCHANGED aborted
         ELSE aborted' = TRUE /\ UNCHANGED qs
    /\ UNCHANGED sv
    /\ SamplerUnused /\ RunnerUnused

\* qs.updateParams(m): assert(m.size() == getDim()), then the body
UpdateParams(d) ==
    /\ Ready /\ sv = NullSV /\ nCalls < MaxCalls
    /\ call' = Called("updateParams", d, qs, Null)
    /\ nCalls' = nCalls + 1
    /\ IF VLen(d) = getDim(qs)
         THEN qs' = updateParams(qs, d) /\ UNCHANGED aborted
         ELSE aborted' = TRUE /\ UNCHANGED qs
    /\ UNCHANGED sv
    /\ SamplerUnused /\ RunnerUnused

\* qs.setA(A): assert(A.size() == a_.size()); nothing is done without bias
SetA(A) ==
    /\ Ready /\ sv = NullSV /\ nCalls < MaxCalls
    /\ call' = Called("setA", A, qs, Null)
    /\ nCalls' = nCalls + 1
    /\ IF VLen(A) # qs.n THEN aborted' = TRUE /\ UNCHANGED qs
       ELSE /\ qs' = IF qs.useBias THEN [qs EXCEPT !.a = A] ELSE qs
            /\ UNCHANGED aborted
    /\ UNCHANGED sv
    /\ SamplerUnused /\ RunnerUnused

\* qs.setB(B): assert(B.size() == b_.size()); nothing is done without bias
SetB(B) ==
    /\ Ready /\ sv = NullSV /\ nCalls < MaxCalls
    /\ call' = Called("setB", B, qs, Null)
    /\ nCalls' = nCalls + 1
    /\ IF VLen(B) # qs.m THEN aborted' = TRUE /\ UNCHANGED qs
       ELSE /\ qs' = IF qs.useBias THEN [qs EXCEPT !.b = B] ELSE qs
            /\ UNCHANGED aborted
    /\ UNCHANGED sv
    /\ SamplerUnused /\ RunnerUnused

\* qs.updateA(v): assert(useBias_); a_ += v
UpdateA(v) ==
    /\ Ready /\ sv = NullSV /\ nCalls < MaxCalls
    /\ call' = Called("updateA", v, qs, Null)
    /\ nCalls' = nCalls + 1
    /\ IF ~qs.useBias THEN aborted' = TRUE /\ UNCHANGED qs
       ELSE qs' = [qs EXCEPT !.a = VecAdd(qs.a, v)] /\ UNCHANGED aborted
    /\ UNCHANGED sv
    /\ SamplerUnused /\ RunnerUnused

\* qs.updateB(v): assert(useBias_); b_ += v
UpdateB(v) ==
    /\ Ready /\ sv = NullSV /\ nCalls < MaxCalls
    /\ call' = Called("updateB", v, qs, Null)
    /\ nCalls' = nCalls + 1
    /\ IF ~qs.useBias THEN aborted' = TRUE /\ UNCHANGED qs
       ELSE qs' = [qs EXCEPT !.b = VecAdd(qs.b, v)] /\ UNCHANGED aborted
    /\ UNCHANGED sv
    /\ SamplerUnused /\ RunnerUnused

\* qs.setUseBias(newBias): useBias_ = newBias; a_ and b_ are left as they are
SetUseBias(newBias) ==
    /\ Ready /\ sv = NullSV /\ nCalls < MaxCalls
    /\ call' = Called("setUseBias", <<newBias>>, qs, Null)
    /\ nCalls' = nCalls + 1
    /\ qs' = [qs EXCEPT !.useBias = newBias]
    /\ UNCHANGED <<sv, aborted>>
    /\ SamplerUnused /\ RunnerUnused

GetParams ==
    /\ Ready /\ sv = NullSV
    /\ call' = Called("getParams", <<>>, Null, getParams(qs))
    /\ UNCHANGED <<qs, sv, nCalls, aborted>>
    /\ SamplerUnused /\ RunnerUnused

NextMachine ==
    \/ \E seed \in 0 .. MaxSeed : InitializeRandom(seed)
    \/ \E r \in ParamInputs : SetParams(r)
    \/ \E d \in ParamInputs : UpdateParams(d)
    \/ GetParams
    \/ \E A \in {Ramp(qs.n), Ramp(qs.n + 1)} : SetA(A)
    \/ \E B \in {Ramp(qs.m), Ramp(qs.m + 1)} : SetB(B)
    \/ UpdateA(Ramp(qs.n))
    \/ UpdateB(Ramp(qs.m))
    \/ \E newBias \in BOOLEAN : SetUseBias(newBias)

\* a Machine and any calls of its parameter operations
SpecMachine == Constructed /\ [][NextMachine]_vars

\* ----------------------------------------------------- Sampler (Sampler.hpp)
RECURSIVE localSweep(_, _, _, _)
\* sweeper_.localSweep(sv, 1.0, re) from site k on: one proposal flip(k) on every
\* site in turn, accepted or not; acc is the set of the sites whose proposal is
\* accepted
localSweep(q, s, acc, k) ==
    IF k >= q.n THEN s
    ELSE localSweep(q, IF k \in acc THEN flip(q, s, k) ELSE s, acc, k + 1)

\* randomSigma(n, nup, re): a configuration with nup sites up
randomSigmaNup(n, nup) ==
    {c \in Configs(n) : Cardinality({i \in Idx(n) : c[i] = 1}) = nup}

\* Sampler(qs, sweeper) on a randomly initialised Machine: sv_ is null.  The
\* Sampler reads of the Machine only n; the Machines it is built on here have
\* 1..MaxN visible and MaxM hidden units, with and without bias.
SamplerConstructed ==
    /\ \E n \in 1 .. MaxN, useBias \in BOOLEAN :
          qs = initializeRandom(RBM(n, MaxM, useBias), MaxSeed)
    /\ sv = NullSV
    /\ call = NoCall
    /\ nCalls = 0
    /\ aborted = FALSE
    /\ ub = FALSE /\ smp = IdleFrame /\ done = FALSE
    /\ rn = NoRun /\ cb = <<>>

\* no sampling() call is in progress
NoSampling == smp.pc \in {"idle", "returned"}

\* randomizeSigma(): sv_ = make_unique<StateValue>(qs_, randomSigma(n_, re_)).
\* The vector a former sampling() call returned stays with its caller.
RandomizeSigma(sigma) ==
    /\ Ready /\ NoSampling
    /\ sv' = StateValue(qs, sigma)
    /\ call' = Called("randomizeSigma", <<>>, Null, Null)
    /\ smp' = [IdleFrame EXCEPT !.res = smp.res] /\ done' = FALSE
    /\ UNCHANGED <<qs, nCalls, aborted, ub>>
    /\ RunnerUnused

\* randomizeSigma(int nup)
RandomizeSigmaNup(nup) ==
    /\ Ready /\ NoSampling
    /\ \E sigma \in randomSigmaNup(qs.n, nup) : sv' = StateValue(qs, sigma)
    /\ call' = Called("randomizeSigma", <<nup>>, Null, Null)
    /\ smp' = [IdleFrame EXCEPT !.res = smp.res] /\ done' = FALSE
    /\ UNCHANGED <<qs, nCalls, aborted, ub>>
    /\ RunnerUnused

\* the body of sweep(): sweeper_.localSweep(*sv_, 1.0, re_).  sv_ is dereferenced
\* unchecked: with sv_ null the sweeper is handed a null reference, which is
\* undefined behaviour
sweep ==
    IF sv = NullSV
      THEN ub' = TRUE /\ UNCHANGED sv
      ELSE /\ \E acc \in SUBSET Sites : sv' = localSweep(qs, sv, acc, 0)
           /\ UNCHANGED ub

\* a call of sweep() by the Sampler's user
Sweep ==
    /\ Ready /\ NoSampling
    /\ sweep
    /\ call' = Called("sweep", <<>>, Null, Null)
    /\ UNCHANGED <<qs, nCalls, aborted, smp, done>>
    /\ RunnerUnused

\* sampling(n_sweeps, n_therm) is entered.  The frame also keeps the number of
\* sweeps delegated by the call so far, and whether the call restarts a chain on
\* which a sampling run has already completed.
SamplingCall(n_sweeps, n_therm) ==
    /\ Ready /\ NoSampling
    /\ smp' = [pc |-> "therm", n_sweeps |-> n_sweeps, n_therm |-> n_therm,
               n |-> 0, ll |-> 0, sweeps |-> 0, restart |-> done, res |-> <<>>]
    /\ call' = Called("sampling", <<n_sweeps, n_therm>>, Null, <<>>)
    /\ UNCHANGED <<qs, sv, nCalls, aborted, ub, done>>
    /\ RunnerUnused

\* the thermalising loop taking one more sweep although n = n_therm
SamplingThermSweepOnceMore ==
    /\ Ready /\ smp.pc = "therm" /\ smp.n <= smp.n_therm
    /\ sweep
    /\ smp' = [smp EXCEPT !.n = @ + 1, !.sweeps = @ + 1]
    /\ UNCHANGED <<qs, call, nCalls, aborted, done>>
    /\ RunnerUnused

\* for(int n = 0; n < n_therm; n++) sweep();
SamplingThermSweep ==
    /\ Ready /\ smp.pc = "therm" /\ smp.n < smp.n_therm
    /\ sweep
    /\ smp' = [smp EXCEPT !.n = @ + 1, !.sweeps = @ + 1]
    /\ UNCHANGED <<qs, call, nCalls, aborted, done>>
    /\ RunnerUnused

\* the thermalising loop is left; res is created empty
SamplingThermDone ==
    /\ Ready /\ smp.pc = "therm" /\ smp.n >= smp.n_therm
    /\ smp' = [smp EXCEPT !.pc = "loop"]
    /\ UNCHANGED <<qs, sv, call, nCalls, aborted, ub, done>>
    /\ RunnerUnused

\* for(int ll = 0; ll < n_sweeps; ll++) { sweep(); ...
SamplingSweep ==
    /\ Ready /\ smp.pc = "loop" /\ smp.ll < smp.n_sweeps
    /\ sweep
    /\ smp' = [smp EXCEPT !.pc = "record", !.sweeps = @ + 1]
    /\ UNCHANGED <<qs, call, nCalls, aborted, done>>
    /\ RunnerUnused

\* ... res.push_back(sv_->data()); }
\* a sampler whose snapshots refer to the chain instead of copying it: at each
\* recording every snapshot taken so far shows the chain's current state
SamplingRecordByReference ==
    /\ Ready /\ smp.pc = "record"
    /\ smp' = [smp EXCEPT !.res = [i \in 1 .. Len(@) + 1 |-> data(sv)],
                          !.ll = @ + 1, !.pc = "loop"]
    /\ UNCHANGED <<qs, sv, call, nCalls, aborted, ub, done>>
    /\ RunnerUnused

\* res.push_back(sv_->data()): data() returns copies of sigma_ and theta_
SamplingRecord ==
    /\ Ready /\ smp.pc = "record"
    /\ smp' = [smp EXCEPT !.res = Append(@, data(sv)), !.ll = @ + 1, !.pc = "loop"]
    /\ UNCHANGED <<qs, sv, call, nCalls, aborted, ub, done>>
    /\ RunnerUnused

\* a sampler that hands out snapshots only on the first run of a chain
SamplingReturnFirstRunOnly ==
    /\ Ready /\ smp.pc = "loop" /\ smp.ll >= smp.n_sweeps
    /\ smp' = [smp EXCEPT !.pc = "returned"]
    /\ call' = [call EXCEPT !.ret = IF done THEN <<>> ELSE smp.res]
    /\ done' = TRUE
    /\ UNCHANGED <<qs, sv, nCalls, aborted, ub>>
    /\ RunnerUnused

\* return res;
SamplingReturn ==
    /\ Ready /\ smp.pc = "loop" /\ smp.ll >= smp.n_sweeps
    /\ smp' = [smp EXCEPT !.pc = "returned"]
    /\ call' = [call EXCEPT !.ret = smp.res]
    /\ done' = TRUE
    /\ UNCHANGED <<qs, sv, nCalls, aborted, ub>>
    /\ RunnerUnused

NextSampler ==
    \/ \E sigma \in Configs(qs.n) : RandomizeSigma(sigma)
    \/ \E nup \in 0 .. qs.n : RandomizeSigmaNup(nup)
    \/ Sweep
    \/ \E n_sweeps \in 0 .. MaxSweeps, n_therm \in 0 .. MaxTherm :
          SamplingCall(n_sweeps, n_therm)
    \/ SamplingThermSweep
    \/ SamplingThermDone
    \/ SamplingSweep
    \/ SamplingRecord
    \/ SamplingReturn

\* a Sampler on a Machine and any calls of its operations
SpecSampler == SamplerConstructed /\ [][NextSampler]_vars

\* ------------------------------------------- RunRBMExact (RunRBMExact.hpp)
\* The exact SR builder, the linear solver and the optimizer are collaborators of
\* run(); their results are kept as terms that name what they were computed from.

\* srex after constructExact(): S, F and the energy of the parameters P
SRMatExact(P) == [params |-> P]
eloc(srex) == [eloc |-> srex.params]
corrMat(srex) == [S |-> srex.params, shift |-> <<0, 1>>]
energyGrad(srex) == [F |-> srex.params]

\* the run configurations (lambdaIni, lambdaDecay = num/den, lambdaMin) of
\* getLambdas(): a decaying schedule that meets its floor in iteration 1, a
\* schedule with lambdaDecay > 1, and no regularization at all
Lambdas ==
    {[ini |-> 3, num |-> 1, den |-> 2, min |-> 2],
     [ini |-> 1, num |-> 2, den |-> 1, min |-> 0],
     [ini |-> 0, num |-> 1, den |-> 1, min |-> 0]}

RECURSIVE Pow(_, _)
Pow(x, k) == IF k = 0 THEN 1 ELSE x * Pow(x, k - 1)

RECURSIVE Gcd(_, _)
Gcd(x, y) == IF y = 0 THEN x ELSE Gcd(y, x % y)

\* the regularization taken as std::min of the decayed value and lambdaMin
lambdaMinOfBoth(lam, ll) ==
    LET num == lam.ini * Pow(lam.num, ll)
        den == Pow(lam.den, ll)
        g   == Gcd(num, den)
    IN  IF num <= lam.min * den THEN <<num \div g, den \div g>> ELSE <<lam.min, 1>>

\* std::max(lambdaIni*pow(lambdaDecay,ll), lambdaMin) as a reduced fraction
lambda(lam, ll) ==
    LET num == lam.ini * Pow(lam.num, ll)
        den == Pow(lam.den, ll)
        g   == Gcd(num, den)
    IN  IF num >= lam.min * den THEN <<num \div g, den \div g>> ELSE <<lam.min, 1>>

\* the updates opt_->getUpdate(v) may return: vectors of the dimension of v
OptimizerUpdates == {ZeroVec(getDim(qs)), Ramp(getDim(qs))}

\* RunRBMExact(N, alpha, useBias, logger): the Machine has N visible and N*alpha
\* hidden units; run() has not been called
RunnerConstructed ==
    /\ \E N \in 1 .. MaxN, alpha \in 1 .. MaxM, useBias \in BOOLEAN :
          N * alpha <= MaxM /\ qs = RBM(N, N * alpha, useBias)
    /\ sv = NullSV
    /\ call = NoCall
    /\ nCalls = 0
    /\ aborted = FALSE
    /\ ub = FALSE /\ smp = IdleFrame /\ done = FALSE
    /\ rn = NoRun /\ cb = <<>>

StateUnused == UNCHANGED <<sv, call, nCalls>>

\* run() up to its loop: the weights are initialised, the configuration is read,
\* srex is created.  iterParams keeps the parameters the iteration started with.
Run(maxIter, saveWfPer, lam, seed) ==
    /\ ~aborted /\ rn.pc = "none"
    /\ qs' = initializeRandom(qs, seed)
    /\ rn' = [pc |-> "loop", maxIter |-> maxIter, saveWfPer |-> saveWfPer, lam |-> lam,
              ll |-> 0, saved |-> <<>>, iterParams |-> Null, srex |-> Null,
              currE |-> Null, corrMat |-> Null, llt |-> Null, grad |-> Null,
              v |-> Null, optV |-> Null]
    /\ UNCHANGED <<aborted, cb>>
    /\ StateUnused /\ SamplerUnused

\* for(ll <= maxIter): the epoch is logged and, when due, the Machine is saved
RunIterate ==
    /\ ~aborted /\ rn.pc = "loop" /\ rn.ll <= rn.maxIter
    /\ rn' = [rn EXCEPT !.pc = "construct",
                        !.saved = IF rn.saveWfPer # 0 /\ rn.ll % rn.saveWfPer = 0
                                    THEN Append(@, rn.ll) ELSE @,
                        !.iterParams = getParams(qs),
                        !.srex = Null, !.currE = Null, !.corrMat = Null, !.llt = Null,
                        !.grad = Null, !.v = Null, !.optV = Null]
    /\ UNCHANGED <<qs, aborted, cb>>
    /\ StateUnused /\ SamplerUnused

\* the loop is left with ll > maxIter and run() returns
RunReturn ==
    /\ ~aborted /\ rn.pc = "loop" /\ rn.ll > rn.maxIter
    /\ rn' = [rn EXCEPT !.pc = "done"]
    /\ UNCHANGED <<qs, aborted, cb>>
    /\ StateUnused /\ SamplerUnused

\* srex.constructExact()
RunConstructExact ==
    /\ ~aborted /\ rn.pc = "construct"
    /\ rn' = [rn EXCEPT !.pc = "regularize", !.srex = SRMatExact(getParams(qs))]
    /\ UNCHANGED <<qs, aborted, cb>>
    /\ StateUnused /\ SamplerUnused

\* currE = srex.eloc(); corrMat = srex.corrMat(); corrMat += lambda*Identity;
\* llt(corrMat), whose info() is Success or NumericalIssue
RunRegularize(info) ==
    /\ ~aborted /\ rn.pc = "regularize"
    /\ LET shifted == [corrMat(rn.srex) EXCEPT !.shift = lambda(rn.lam, rn.ll)]
       IN  rn' = [rn EXCEPT !.pc = "solve", !.currE = eloc(rn.srex),
                            !.corrMat = shifted,
                            !.llt = [of |-> shifted, info |-> info]]
    /\ UNCHANGED <<qs, aborted, cb>>
    /\ StateUnused /\ SamplerUnused

\* grad = srex.energyGrad(); v = llt.solve(grad)
RunSolve ==
    /\ ~aborted /\ rn.pc = "solve"
    /\ rn' = [rn EXCEPT !.pc = "getUpdate", !.grad = energyGrad(rn.srex),
                        !.v = [solve |-> rn.llt, rhs |-> energyGrad(rn.srex)]]
    /\ UNCHANGED <<qs, aborted, cb>>
    /\ StateUnused /\ SamplerUnused

\* optV = opt_->getUpdate(v)
RunGetUpdate(optV) ==
    /\ ~aborted /\ rn.pc = "getUpdate"
    /\ rn' = [rn EXCEPT !.pc = "updateParams", !.optV = optV]
    /\ UNCHANGED <<qs, aborted, cb>>
    /\ StateUnused /\ SamplerUnused

\* qs_.updateParams(optV): assert(m.size() == getDim()), then the body
RunUpdateParams ==
    /\ ~aborted /\ rn.pc = "updateParams"
    /\ IF VLen(rn.optV) = getDim(qs)
         THEN /\ qs' = updateParams(qs, rn.optV)
              /\ rn' = [rn EXCEPT !.pc = "callback"]
              /\ UNCHANGED aborted
         ELSE aborted' = TRUE /\ UNCHANGED <<qs, rn>>
    /\ UNCHANGED cb
    /\ StateUnused /\ SamplerUnused

\* a callback handed the energy of the parameters as they are after the update
RunCallbackEnergyAfterUpdate ==
    /\ ~aborted /\ rn.pc = "callback"
    /\ cb' = Append(cb, [ll |-> rn.ll, currE |-> eloc(SRMatExact(getParams(qs))),
                         nv |-> [norm |-> rn.v]])
    /\ rn' = [rn EXCEPT !.pc = "loop", !.ll = @ + 1]
    /\ UNCHANGED <<qs, aborted>>
    /\ StateUnused /\ SamplerUnused

\* nv = v.norm(); callback(ll, currE, nv); ll++
RunCallback ==
    /\ ~aborted /\ rn.pc = "callback"
    /\ cb' = Append(cb, [ll |-> rn.ll, currE |-> rn.currE, nv |-> [norm |-> rn.v]])
    /\ rn' = [rn EXCEPT !.pc = "loop", !.ll = @ + 1]
    /\ UNCHANGED <<qs, aborted>>
    /\ StateUnused /\ SamplerUnused

NextRunner ==
    \/ \E maxIter \in 0 .. MaxIter, saveWfPer \in 0 .. MaxSavePer, lam \in Lambdas,
          seed \in 0 .. MaxSeed : Run(maxIter, saveWfPer, lam, seed)
    \/ RunIterate
    \/ RunReturn
    \/ RunConstructExact
    \/ \E info \in {"Success", "NumericalIssue"} : RunRegularize(info)
    \/ RunSolve
    \/ \E optV \in OptimizerUpdates : RunGetUpdate(optV)
    \/ RunUpdateParams
    \/ RunCallback

\* a RunRBMExact and one call of run()
SpecRunner == RunnerConstructed /\ [][NextRunner]_vars

\* --------------------------------------------------------------- properties
ThetaInvariant == sv # NullSV => sv.theta = calcTheta(qs, sv.sigma)

\* C1: after every flip(k), flip(k,l) and flip(tuple) call with in-range sites,
\* coinciding sites included, theta equals calcTheta of the current sigma.
C1_ThetaIsCalcThetaAfterEveryFlip ==
    call.op \in {"flip", "flip2", "flipN"} => sv.theta = calcTheta(qs, sv.sigma)


\* the StateValue recomputed from scratch for sigma with site k negated
FreshFlipped(k) == StateValue(qs, [sv.sigma EXCEPT ![k] = -sv.sigma[k]])

\* C3: on a state with theta = W.sigma + b, logRatio(k) is logCoeff of the freshly
\* recomputed flipped state minus logCoeff of the state, and exp(logRatio(k)) is
\* the quotient of the two coeff values.
C3_LogRatioIsLogCoeffDifference ==
    (call.op = "logRatio" /\ sv.theta = calcTheta(qs, sv.sigma)) =>
        LET k == call.args[1] IN
        /\ call.ret = FSub(logCoeff(qs, data(FreshFlipped(k))), logCoeff(qs, data(sv)))
        /\ Exp(call.ret) = CoeffDiv(coeff(qs, data(FreshFlipped(k))), coeff(qs, data(sv)))

C3_Witness ==
    /\ call.op = "logRatio" /\ nCalls > 0
    /\ sv.theta = calcTheta(qs, sv.sigma)
    /\ qs.m > 1 /\ call.ret.lin # 0 /\ Cardinality(DOMAIN call.ret.lc) > 1

\* C4: logRatio(k,l), and logRatio of the tuple {k,l}, equals logRatio(k) plus
\* logRatio(l) on the state after flip(k), for any sites k and l, in either order.
C4_LogRatioOfTwoSitesComposes ==
    /\ call.op = "logRatio2" =>
         LET k == call.args[1]
             l == call.args[2]
         IN  /\ call.ret = FAdd(logRatio(qs, sv, k), logRatio(qs, flip(qs, sv, k), l))
             /\ call.ret = logRatio2(qs, sv, l, k)
    /\ (call.op = "logRatioN" /\ Len(call.args) = 2) =>
         LET k == call.args[1]
             l == call.args[2]
         IN  /\ call.ret = FAdd(logRatio(qs, sv, k), logRatio(qs, flip(qs, sv, k), l))
             /\ call.ret = logRatioN(qs, sv, <<l, k>>)

\* C5 as stated: the logDeriv entry of weight (j,i) is at the row-major index j*n + i.
C5_LogDerivRowMajor ==
    call.op = "logDeriv" =>
        /\ VLen(call.ret) = getDim(qs)
        /\ \A j \in Idx(qs.m), i \in Idx(qs.n) :
              call.ret[j * qs.n + i] = TimesTanh(sv.sigma[i], sv.theta[j])
        /\ qs.useBias =>
              /\ \A i \in Idx(qs.n) : call.ret[qs.n * qs.m + i] = Const(sv.sigma[i])
              /\ \A j \in Idx(qs.m) :
                    call.ret[qs.n * qs.m + qs.n + j] = TimesTanh(1, sv.theta[j])

\* C5 amended: logDeriv has length getDim() and is ordered [W column-major, a, b]
\* with bias, [W] without: the entry of weight (j,i) is at index i*m + j.
C5_LogDerivColumnMajor ==
    call.op = "logDeriv" =>
        /\ VLen(call.ret) = getDim(qs)
        /\ \A j \in Idx(qs.m), i \in Idx(qs.n) :
              call.ret[i * qs.m + j] = TimesTanh(sv.sigma[i], sv.theta[j])
        /\ qs.useBias =>
              /\ \A i \in Idx(qs.n) : call.ret[qs.n * qs.m + i] = Const(sv.sigma[i])
              /\ \A j \in Idx(qs.m) :
                    call.ret[qs.n * qs.m + qs.n + j] = TimesTanh(1, sv.theta[j])

C5_Witness ==
    /\ call.op = "logDeriv" /\ qs.useBias /\ qs.n > 1 /\ qs.m > 1
    /\ TimesTanh(sv.sigma[1], sv.theta[0]) # TimesTanh(sv.sigma[0], sv.theta[1])
    /\ call.ret[qs.m] = TimesTanh(sv.sigma[1], sv.theta[0])


\* C2: getParams() after setParams(r) returns r, and setParams(getParams()) leaves
\* W, a and b unchanged, with and without bias.
C2_SetParamsGetParamsRoundTrip ==
    (call.op = "setParams" /\ ~aborted) =>
        /\ getParams(qs) = call.args
        /\ call.args = getParams(call.pre) => qs = call.pre

C2_Witness ==
    /\ call.op = "setParams" /\ ~aborted
    /\ call.args = getParams(call.pre)
    /\ qs.n > 1 /\ qs.m > 1 /\ qs.W[0][1] # qs.W[1][0]

\* C6: getDim() is n*m + n + m with bias and n*m without; updateParams(delta) with
\* a delta of that length adds delta to getParams() componentwise, and a delta of
\* another length is rejected by the assertion and changes no parameter.
C6_UpdateParamsAddsDelta ==
    call.op = "updateParams" =>
        /\ getDim(call.pre) = call.pre.n * call.pre.m
                + (IF call.pre.useBias THEN call.pre.n + call.pre.m ELSE 0)
        /\ VLen(getParams(call.pre)) = getDim(call.pre)
        /\ VLen(call.args) = getDim(call.pre) =>
              ~aborted /\ getParams(qs) = VecAdd(getParams(call.pre), call.args)
        /\ VLen(call.args) # getDim(call.pre) => aborted /\ qs = call.pre

C6_Witness ==
    /\ call.op = "updateParams" /\ ~aborted
    /\ qs.useBias /\ qs.n > 1 /\ qs.m > 1
    /\ call.args = Ramp(getDim(qs))
    /\ call.pre.b # ZeroVec(qs.m)

\* a sampling() call made on a randomized sampler is in progress or has just returned
SamplingOnChain == call.op = "sampling" /\ sv # NullSV

\* the sweeps delegated and the snapshots recorded at each position of sampling()
C7_Counts ==
    SamplingOnChain =>
        /\ <<smp.n_sweeps, smp.n_therm>> = call.args
        /\ smp.pc = "therm" =>
              smp.sweeps = smp.n /\ smp.n <= smp.n_therm /\ smp.res = <<>>
        /\ smp.pc = "loop" =>
              /\ smp.sweeps = smp.n_therm + smp.ll
              /\ Len(smp.res) = smp.ll /\ smp.ll <= smp.n_sweeps
        /\ smp.pc = "record" =>
              /\ smp.sweeps = smp.n_therm + smp.ll + 1
              /\ Len(smp.res) = smp.ll /\ smp.ll < smp.n_sweeps
        /\ smp.pc = "returned" =>
              /\ smp.sweeps = smp.n_therm + smp.n_sweeps
              /\ Len(call.ret) = smp.n_sweeps
              /\ call.ret = smp.res

\* a step of a sampling() call in progress: the chain changes only by a sweep, a
\* sweep of the recording loop is followed at once by the recording, and a
\* recording appends a copy of the chain's current state behind the earlier snapshots
C7_Step ==
    (SamplingOnChain /\ smp.pc \in {"therm", "loop", "record"}) =>
        /\ sv' # sv => smp'.sweeps = smp.sweeps + 1 /\ smp'.res = smp.res
        /\ (smp'.sweeps # smp.sweeps /\ smp.pc = "loop") => smp'.pc = "record"
        /\ smp.pc = "record" <=> smp'.res # smp.res
        /\ smp.pc = "record" =>
              /\ smp'.res = Append(smp.res, data(sv))
              /\ sv' = sv /\ smp'.sweeps = smp.sweeps

\* C7: sampling(n_sweeps, n_therm) on a randomized sampler makes exactly n_therm
\* sweeps that record nothing, then exactly n_sweeps sweeps, each followed at once by
\* recording one snapshot of the chain's current state, and returns exactly these
\* n_sweeps snapshots in the order of their recording.
C7_SamplingThermalizesThenRecords == [](C7_Counts) /\ [][C7_Step]_vars

C7_Witness ==
    /\ SamplingOnChain /\ smp.pc = "returned"
    /\ smp.n_therm > 0 /\ Len(call.ret) > 1
    /\ call.ret[1] # call.ret[2]
    /\ call.ret[Len(call.ret)] = data(sv)

\* C8: sweep() or sampling() called on a Sampler that was never randomized fails
\* fast by an assertion, and no sweep is delegated to the sweeper on the null chain.
C8_UnrandomizedUseFailsFast ==
    /\ ~ub
    /\ (call.op \in {"sweep", "sampling"} /\ sv = NullSV) => aborted

\* the phase of the chain: Uninitialized until randomizeSigma, Thermalizing from
\* randomizeSigma until the thermalising loop of a sampling() call is left,
\* Sampling in the recording loop, Done once sampling() has returned
Phase ==
    IF sv = NullSV THEN "Uninitialized"
    ELSE IF smp.pc \in {"loop", "record"} THEN "Sampling"
    ELSE IF smp.pc = "returned" THEN "Done"
    ELSE "Thermalizing"

PhaseOrder ==
    {<<"Uninitialized", "Thermalizing">>, <<"Thermalizing", "Sampling">>,
     <<"Sampling", "Done">>, <<"Done", "Thermalizing">>}

\* C9 as stated: a sampling() call made again on a chain on which a run has
\* completed, with no randomizeSigma in between, produces no snapshots.
C9_SecondRunProducesNoSnapshots ==
    (SamplingOnChain /\ smp.restart) => smp.res = <<>> /\ call.ret = <<>>

\* C9 amended: the chain's phase moves only along Uninitialized -> Thermalizing ->
\* Sampling -> Done; Done is left for Thermalizing by randomizeSigma or by a further
\* sampling() call, and that call, made without randomizeSigma in between, runs on
\* from the chain's current state and returns its n_sweeps snapshots.
C9_PhaseOrderAndRestart ==
    [][/\ Phase' # Phase => <<Phase, Phase'>> \in PhaseOrder
       /\ (Phase = "Done" /\ Phase' # Phase) =>
             \/ call'.op = "randomizeSigma"
             \/ call'.op = "sampling" /\ smp'.restart /\ sv' = sv
       /\ (SamplingOnChain /\ smp.pc = "loop" /\ smp'.pc = "returned") =>
             Len(call'.ret) = smp.n_sweeps /\ call'.ret = smp.res
      ]_vars

C9_Witness ==
    /\ SamplingOnChain /\ smp.restart /\ smp.pc = "returned"
    /\ Len(call.ret) = MaxSweeps /\ smp.n_therm > 0

\* the positions of one iteration of run(), in the order they are passed
RunStepOrder ==
    {<<"loop", "construct">>, <<"construct", "regularize">>, <<"regularize", "solve">>,
     <<"solve", "getUpdate">>, <<"getUpdate", "updateParams">>,
     <<"updateParams", "callback">>, <<"callback", "loop">>, <<"loop", "done">>}

\* from constructExact to the end of the solve and the optimizer's call the
\* parameters are those the iteration started with and S, F and the energy are
\* computed from them; at the callback they are these plus the optimizer's update
C10_NoOverlap ==
    /\ rn.pc \in {"construct", "regularize", "solve", "getUpdate", "updateParams"} =>
          getParams(qs) = rn.iterParams
    /\ rn.pc \in {"regularize", "solve", "getUpdate", "updateParams", "callback"} =>
          rn.srex = SRMatExact(rn.iterParams)
    /\ rn.pc \in {"solve", "getUpdate", "updateParams", "callback"} =>
          /\ rn.currE = eloc(SRMatExact(rn.iterParams))
          /\ rn.corrMat = [S |-> rn.iterParams, shift |-> lambda(rn.lam, rn.ll)]
          /\ rn.llt.of = rn.corrMat
    /\ rn.pc \in {"getUpdate", "updateParams", "callback"} =>
          rn.v = [solve |-> rn.llt, rhs |-> energyGrad(SRMatExact(rn.iterParams))]
    /\ rn.pc = "callback" => getParams(qs) = VecAdd(rn.iterParams, rn.optV)
    /\ rn.pc \notin {"none", "callback"} => Len(cb) = rn.ll
    /\ rn.pc = "callback" => Len(cb) = rn.ll

\* a step of run(): the positions follow RunStepOrder, the parameters change only
\* in the updateParams step, by the optimizer's update, and the callback of
\* iteration ll is handed ll and the energy of the parameters the iteration
\* started with
C10_Step ==
    rn.pc # "none" =>
        /\ <<rn.pc, rn'.pc>> \in RunStepOrder
        /\ qs' # qs =>
              /\ rn.pc = "updateParams"
              /\ getParams(qs') = VecAdd(getParams(qs), rn.optV)
        /\ cb' # cb <=> rn.pc = "callback"
        /\ rn.pc = "callback" =>
              /\ cb' = Append(cb, [ll |-> rn.ll,
                                   currE |-> eloc(SRMatExact(rn.iterParams)),
                                   nv |-> [norm |-> rn.v]])
              /\ rn'.ll = rn.ll + 1

\* C10: every iteration of run() goes constructExact -> regularize -> solve ->
\* getUpdate -> updateParams -> callback; the parameters are changed once per
\* iteration, by that updateParams call only, never between constructExact and the
\* end of the solve; the callback of iteration ll gets the energy computed from
\* the parameters before the update of iteration ll.
C10_IterationOrder == [](C10_NoOverlap) /\ [][C10_Step]_vars

C10_Witness ==
    /\ rn.pc = "loop" /\ Len(cb) > 1
    /\ cb[1].currE # cb[2].currE
    /\ cb[2].currE # eloc(SRMatExact(getParams(qs)))
    /\ cb[2].ll = 1

\* the Machine without bias that getParams() describes
FromParams(q) == setParams(RBM(q.n, q.m, FALSE), getParams(q))

\* the calls that may write a bias vector
BiasMutators ==
    {"setA", "setB", "updateA", "updateB", "updateParams", "setParams", "initializeRandom"}

\* C13: on a Machine without bias each bias-mutating call is rejected or leaves a
\* and b unchanged, and after any calls of the Machine's operations calcTheta and
\* logCoeff are those of the parameters getParams() reports: no bias value kept
\* outside getParams() enters them.
C13_NoHiddenBias ==
    /\ (call.op \in BiasMutators /\ ~call.pre.useBias) =>
          aborted \/ (qs.a = call.pre.a /\ qs.b = call.pre.b)
    /\ (~qs.useBias /\ ~aborted) =>
          \A sigma \in Configs(qs.n) :
              /\ calcTheta(qs, sigma) = calcTheta(FromParams(qs), sigma)
              /\ logCoeff(qs, StateValue(qs, sigma))
                    = logCoeff(FromParams(qs), StateValue(FromParams(qs), sigma))

\* C14: a flip or logRatio call with a site index outside [0, n) aborts by an
\* assertion, sigma and theta are not modified, and the index is not used to read
\* or write outside the vectors.
C14_OutOfRangeIndexFailsFast ==
    call.op \in {"flipOutOfRange", "logRatioOutOfRange"} =>
        aborted /\ ~ub /\ sv = call.pre

\* fractions <<numerator, denominator>> with a positive denominator
FracLeq(x, y) == x[1] * y[2] <= y[1] * x[2]
FracEq(x, y) == x[1] * y[2] = y[1] * x[2]

\* a step of run() at which corrMat holds the regularized covariance
Regularized == rn.pc \in {"solve", "getUpdate", "updateParams", "callback"}

\* lambdaIni >= 0 and 0 <= lambdaDecay <= 1
Decaying(lam) == lam.ini >= 0 /\ lam.num >= 0 /\ lam.num <= lam.den

\* the value added to the diagonal in iteration ll is max(lambdaMin,
\* lambdaIni*lambdaDecay^ll), and it is never below lambdaMin
LambdaIsMax ==
    LET cur == rn.corrMat.shift
        raw == <<rn.lam.ini * Pow(rn.lam.num, rn.ll), Pow(rn.lam.den, rn.ll)>>
        flr == <<rn.lam.min, 1>>
    IN  /\ rn.corrMat.S = rn.srex.params
        /\ FracLeq(raw, cur) /\ FracLeq(flr, cur)
        /\ FracEq(cur, raw) \/ FracEq(cur, flr)

\* C12 as stated: the value added to the diagonal of S in iteration ll is
\* max(lambdaMin, lambdaIni*lambdaDecay^ll), never below lambdaMin, and not above
\* the value of iteration ll - 1, whatever the configuration.
C12_LambdaNeverIncreases ==
    Regularized =>
        /\ LambdaIsMax
        /\ rn.ll > 0 => FracLeq(rn.corrMat.shift, lambda(rn.lam, rn.ll - 1))

\* C12 amended: the value added to the diagonal of S in iteration ll is
\* max(lambdaMin, lambdaIni*lambdaDecay^ll) and never below lambdaMin; it is not
\* above the value of iteration ll - 1 when lambdaIni >= 0 and 0 <= lambdaDecay <= 1.
C12_LambdaSchedule ==
    Regularized =>
        /\ LambdaIsMax
        /\ (rn.ll > 0 /\ Decaying(rn.lam)) =>
              FracLeq(rn.corrMat.shift, lambda(rn.lam, rn.ll - 1))

C12_Witness ==
    /\ Regularized /\ rn.ll > 0 /\ Decaying(rn.lam)
    /\ rn.corrMat.shift = <<rn.lam.min, 1>>
    /\ rn.lam.ini * Pow(rn.lam.num, rn.ll) < rn.lam.min * Pow(rn.lam.den, rn.ll)
    /\ lambda(rn.lam, rn.ll - 1) # rn.corrMat.shift

\* C11: when the Cholesky factorization of the regularized covariance fails in an
\* iteration of run(), the runner does not go on as if the solve had succeeded: it
\* neither applies the update obtained from the failed factorization nor makes
\* the iteration's ordinary callback.
C11_FailedFactorizationStopsIteration ==
    rn.pc \in {"updateParams", "callback"} => rn.llt.info = "Success"


\* the callback has been invoked once for each of ll = 0, 1, 2, ... in order
CallbackNumbering == \A i \in 1 .. Len(cb) : cb[i].ll = i - 1

\* C15: run(maxIter, ...) performs at most maxIter iterations, invoking the callback
\* once per iteration with iteration numbers 0, 1, 2, ... and skipping none.
C15_AtMostMaxIterIterations ==
    rn.pc # "none" =>
        /\ CallbackNumbering
        /\ Len(cb) <= rn.maxIter
        /\ rn.pc = "done" => Len(cb) = rn.ll


\* the flat vector that is 1 at index p and 0 elsewhere
UnitVec(d, p) == [x \in Idx(d) |-> IF x = p THEN 1 ELSE 0]

\* the derivatives of logCoeff = a.sigma + SUM_j logCosh(W_j.sigma + b_j) at (sigma, theta)
DerivW(t, j, i) == TimesTanh(t.sigma[i], t.theta[j])
DerivA(t, i) == Const(t.sigma[i])
DerivB(t, j) == TimesTanh(1, t.theta[j])

\* q and r are the same Machine but for one parameter, which is larger by 1 in r,
\* and g is the derivative of logCoeff with respect to that parameter
OneParameterMoved(q, r, t, g) ==
    LET WMoved == {x \in Idx(q.m) \X Idx(q.n) : r.W[x[1]][x[2]] # q.W[x[1]][x[2]]}
        AMoved == {i \in Idx(q.n) : r.a[i] # q.a[i]}
        BMoved == {j \in Idx(q.m) : r.b[j] # q.b[j]}
    IN  /\ Cardinality(WMoved) + Cardinality(AMoved) + Cardinality(BMoved) = 1
        /\ \A x \in WMoved : r.W[x[1]][x[2]] = q.W[x[1]][x[2]] + 1 /\ g = DerivW(t, x[1], x[2])
        /\ \A i \in AMoved : r.a[i] = q.a[i] + 1 /\ g = DerivA(t, i)
        /\ \A j \in BMoved : r.b[j] = q.b[j] + 1 /\ g = DerivB(t, j)

\* C16: for every flat index p < getDim(), updateParams with the unit vector at p
\* moves exactly one parameter, getParams() reports that parameter at index p,
\* setParams reads it from index p, and entry p of logDeriv(sigma, theta) is the
\* derivative of logCoeff with respect to it.
C16_FlatLayoutsAgree ==
    call.op = "logDeriv" =>
        /\ VLen(call.ret) = getDim(qs)
        /\ \A p \in Idx(getDim(qs)) :
              LET e == UnitVec(getDim(qs), p)
                  r == updateParams(qs, e)
              IN  /\ OneParameterMoved(qs, r, data(sv), call.ret[p])
                  /\ getParams(r) = VecAdd(getParams(qs), e)
                  /\ setParams(qs, VecAdd(getParams(qs), e)) = r

C16_Witness ==
    /\ call.op = "logDeriv" /\ qs.useBias /\ qs.n > 1 /\ qs.m > 1
    /\ DerivW(data(sv), 1, 0) # DerivW(data(sv), 0, 1)
    /\ DerivA(data(sv), 0) # DerivB(data(sv), 0)
    /\ call.ret[1] = DerivW(data(sv), 1, 0)
    /\ updateParams(qs, UnitVec(getDim(qs), 1)).W[1][0] = qs.W[1][0] + 1


\* a step that is not the entry of a new sampling() call keeps every snapshot
\* recorded so far, at its position and with its value
C17_Step ==
    (smp'.pc = "therm" /\ smp.pc \in {"idle", "returned"})
    \/ \A i \in 1 .. Len(smp.res) : Len(smp'.res) >= i /\ smp'.res[i] = smp.res[i]

\* every snapshot satisfies theta = W.sigma + b for the Machine of the run, and the
\* vector handed to the caller is the sequence recorded
C17_Snapshots ==
    /\ \A i \in 1 .. Len(smp.res) : smp.res[i].theta = calcTheta(qs, smp.res[i].sigma)
    /\ (call.op = "sampling" /\ smp.pc = "returned") => call.ret = smp.res

\* C17: a snapshot recorded by sampling() is a copy: no later sweep, flip or
\* randomizeSigma on the chain changes it, and every snapshot satisfies
\* theta = W.sigma + b for the Machine parameters of the run.
C17_SnapshotsAreImmutableCopies == [](C17_Snapshots) /\ [][C17_Step]_vars

C17_Witness ==
    /\ smp.pc = "idle" /\ Len(smp.res) = 2
    /\ smp.res[1] # smp.res[2]
    /\ call.op = "randomizeSigma"
    /\ sv # NullSV /\ data(sv) # smp.res[1] /\ data(sv) # smp.res[2]

====
